---- MODULE Spec2Model ----
(***************************************************************************)
(* Model of the interest-rate service of fence-test: the aggregation       *)
(* service (InterestRateService), the ledger adapter (SmartContractStorage *)
(* over the Web3Client singleton), the POST /asset handler that drives     *)
(* them, the GET /interest_rate handler, the construction of the ledger    *)
(* client, and the relational repository (InterestRateRepository).         *)
(*                                                                         *)
(* Decimal values are integers counted in units of 10^-FracDigits.         *)
(* An ISO-8601 timestamp string is the record [sec, micro] it denotes.     *)
(* Handlers are `async def` coroutines on one event loop: a coroutine      *)
(* keeps the loop until it reaches a point where it really suspends.       *)
(***************************************************************************)
EXTENDS Integers, Sequences, FiniteSets, TLC

VARIABLES
  req,         \* req[r]: the frame of request r's coroutine
  running,     \* the request that holds the event loop, 0 when it is free
  started,     \* number of requests received so far
  minedCount,  \* remote node: transactions of the account mined so far
  pending,     \* remote node: transactions accepted and not yet mined
  slot,        \* contract storage: [rate, ts] as two uint256
  receipts,    \* remote node: tx hash -> receipt status, for mined transactions
  nextHash,    \* remote node: next fresh transaction hash
  submitted,   \* history: nonces of the transactions the node accepted, in order
  rows,        \* relational table interest_rates
  sess,        \* sess[s]: one database session
  client       \* the Web3Client singleton and the threads constructing it

vars == <<req, running, started, minedCount, pending, slot, receipts,
          nextHash, submitted, rows, sess, client>>

chainVars == <<minedCount, pending, slot, receipts, nextHash, submitted>>
repoVars == <<rows, sess>>

----------------------------------------------------------------------------
(* Bounds of the model *)

FracDigits == 4
MaxSaves == 2
TickSeconds == 60
MaxRows == 3

(* Program constants *)

Timeout == 120
ScaleFactor == 100

Reqs == {1, 2}
Sessions == {1, 2}

----------------------------------------------------------------------------
(* Decimal arithmetic *)

RECURSIVE Pow10(_)
Pow10(n) == IF n <= 0 THEN 1 ELSE 10 * Pow10(n - 1)

\* the Decimal with h hundredths
Dec(h) == h * Pow10(FracDigits - 2)

Abs(x) == IF x < 0 THEN -x ELSE x

Min(a, b) == IF a < b THEN a ELSE b

----------------------------------------------------------------------------
(* Inputs *)

\* What datetime.now(timezone.utc).isoformat() may give
Timestamps == {[sec |-> 1, micro |-> 500000], [sec |-> 2, micro |-> 0]}

Obs(i, r) == [id |-> i, interest_rate |-> r]

\* Request bodies of POST /asset: lists of AssetRequest (interest_rate >= 0)
AssetLists ==
  { << >>,
    << Obs("a", Dec(1000)), Obs("b", Dec(2000)) >>,
    << Obs("a", Dec(1000)), Obs("b", Dec(2000)), Obs("c", Dec(1550)) >> }

----------------------------------------------------------------------------
(* InterestRateService: the average *)

RECURSIVE SumRates(_)
\* sum(asset.interest_rate for asset in assets)
SumRates(assets) ==
  IF assets = << >> THEN 0
  ELSE Head(assets).interest_rate + SumRates(Tail(assets))

\* a quotient that drops the remainder instead of rounding it
DecimalDivFloor(a, n) == a \div n

\* Decimal division a / n, rounded half-even to the last kept digit
DecimalDiv(a, n) ==
  LET q == a \div n
      rem == a % n
  IN  IF 2 * rem > n THEN q + 1
      ELSE IF 2 * rem = n THEN q + (q % 2)
      ELSE q

\* total_rate / len(assets)
AverageRate(assets) == DecimalDiv(SumRates(assets), Len(assets))

\* an emptiness test that lets the empty list through
RejectsEmptyNever(assets) == FALSE

\* `if not assets`
RejectsEmpty(assets) == Len(assets) = 0

----------------------------------------------------------------------------
(* Ledger adapter: encodings *)

\* rate_uint = int(rate * Decimal('100')): int() drops the fraction
ToUint(rate) == (rate * ScaleFactor) \div Pow10(FracDigits)

\* Decimal(rate_uint) / Decimal('100')
FromUint(u) == (u * Pow10(FracDigits)) \div ScaleFactor

\* int(fromisoformat(timestamp).timestamp()): int() drops the microseconds
IsoToUnix(t) == t.sec

\* fromtimestamp(unix_timestamp, tz=utc).isoformat()
UnixToIso(u) == [sec |-> u, micro |-> 0]

\* rate * 100 is an integer
FitsTwoDecimals(rate) == (rate * ScaleFactor) % Pow10(FracDigits) = 0

----------------------------------------------------------------------------
(* Request frames and the event loop *)

NoTime == [sec |-> -1, micro |-> 0]

NoResponse == [status |-> 0, rate |-> -1, ts |-> NoTime]

\* no remote reading yet
NoReading == [rate |-> -1, ts |-> -1]

Frame0 ==
  [pc |-> "idle", kind |-> "none", assets |-> << >>, avg |-> -1, ts |-> NoTime, unix |-> -1,
   rateUint |-> -1, nonce |-> -1, txHash |-> -1, elapsed |-> 0,
   saves |-> 0, sends |-> 0, saveOutcome |-> "none", cause |-> "none",
   exc |-> "none", errTx |-> -1, returned |-> -1, read |-> "none",
   reading |-> NoReading, loaded |-> << >>, response |-> NoResponse]

\* suspension points as they would be if the nonce read were an awaited call
YieldPointsAwaitedRpc == {"ready", "built"}

\* The points where a request's coroutine is suspended and another may run.
\* update_assets, calculate_and_save_average_rate and save_interest_rate are
\* `async def`, but everything they await is a coroutine that runs plain
\* synchronous code (update_interest_rate, get_interest_rate): once the
\* handler body starts, it keeps the event loop until it returns.
YieldPoints == {"ready"}

CanRun(r) == running = r \/ (running = 0 /\ req[r].pc \in YieldPoints)

HoldsLoop(p) == p \notin (YieldPoints \cup {"done"})

\* request r takes one step of its coroutine and ends with frame f
Step(r, f) ==
  /\ CanRun(r)
  /\ req' = [req EXCEPT ![r] = f]
  /\ running' = IF HoldsLoop(f.pc) THEN r ELSE 0

----------------------------------------------------------------------------
(* Remote node *)

\* w3.eth.get_transaction_count(address): the default block is 'latest',
\* so only mined transactions are counted
GetTransactionCount == minedCount

\* a decoding without the test for the never-written slot
DecodeReadingNoSentinel(s) == << FromUint(s.rate), UnixToIso(s.ts) >>

\* contract.functions.getInterestRate().call() and the decoding after it
DecodeReading(s) ==
  LET rate == FromUint(s.rate)
  IN  IF rate = 0 /\ s.ts = 0 THEN << >> ELSE << rate, UnixToIso(s.ts) >>

\* unix timestamps past the year 9999, for which
\* datetime.fromtimestamp(unix_timestamp, tz=utc) raises ValueError
FarTimestamps == {99}

\* get_interest_rate and get_current_interest_rate on frame f: the remote
\* call answers the slot, or raises and `except Exception` returns None; the
\* conversion of the timestamp read is outside that try block
GetCurrentRate(f, to) ==
  { IF DecodeReading(slot) # << >> /\ slot.ts \in FarTimestamps
      THEN [f EXCEPT !.pc = "raised", !.read = "ok", !.reading = slot,
                     !.exc = "ValueError"]
    ELSE [f EXCEPT !.pc = to, !.read = "ok", !.reading = slot,
                   !.loaded = DecodeReading(slot)],
    [f EXCEPT !.pc = to, !.read = "raised", !.loaded = << >>] }

\* a confirmation wait that never gives up
TimedOutNever(e) == FALSE

\* wait_for_transaction_receipt(tx_hash, timeout=120)
TimedOut(e) == e >= Timeout

\* a receipt check that accepts every receipt
ReceiptOkUnchecked(status) == TRUE

\* `if receipt.get('status') == 0: raise`
ReceiptOk(status) == status # 0

\* an except clause that starts the save over after a confirmation timeout
SaveExceptRetry(from) == IF from = "wait" THEN "converted" ELSE "raised"

\* `except Exception as e: ... raise Exception(error_msg) from e`
SaveExcept(from) == "raised"

\* the transaction hash named in the message of the exception: the status
\* check writes it ("... TX: {tx_hash}"), a timeout's message is the text of
\* web3's TimeExhausted, which names the transaction; any other exception
\* raised while polling is reported with its own text only
ErrorTx(f, why) == IF why \in {"status0", "timeout"} THEN f.txHash ELSE -1

\* an exception inside save_interest_rate's try block
RaiseInSave(f, why) ==
  [f EXCEPT !.pc = SaveExcept(f.pc), !.saveOutcome = "error", !.cause = why,
            !.exc = "Exception", !.errTx = ErrorTx(f, why)]

----------------------------------------------------------------------------
(* POST /asset: update_assets and what it calls *)

\* the two routes of the router
Kinds == {"post", "get"}

\* a request for route k arrives; FastAPI resolves its dependencies and
\* schedules the handler's coroutine
Arrive(r, k) ==
  /\ req[r].pc = "idle"
  /\ started < MaxSaves
  /\ req' = [req EXCEPT ![r] = [Frame0 EXCEPT !.pc = "ready", !.kind = k]]
  /\ started' = started + 1
  /\ UNCHANGED <<running, chainVars, repoVars, client>>

Receive(r) == \E k \in Kinds : Arrive(r, k)

\* the handler starts on the request's body `assets`:
\* calculate_and_save_average_rate up to the call of the storage
Calculate(r) ==
  /\ req[r].pc = "ready"
  /\ req[r].kind = "post"
  /\ \E a \in AssetLists, now \in Timestamps :
       LET f == [req[r] EXCEPT !.assets = a] IN
       Step(r, IF RejectsEmpty(a)
                 THEN [f EXCEPT !.pc = "raised", !.exc = "ValueError"]
               ELSE IF Len(a) = 0
                 THEN [f EXCEPT !.pc = "raised", !.exc = "ZeroDivisionError"]
               ELSE [f EXCEPT !.pc = "averaged",
                              !.avg = AverageRate(a),
                              !.ts = now])
  /\ UNCHANGED <<started, chainVars, repoVars, client>>

\* save_interest_rate is entered and converts the timestamp
SaveEnter(r) ==
  LET f == req[r] IN
  /\ f.pc = "averaged"
  /\ Step(r, [f EXCEPT !.pc = "converted", !.saves = @ + 1,
                       !.unix = IsoToUnix(f.ts)])
  /\ UNCHANGED <<started, chainVars, repoVars, client>>

\* update_interest_rate: the rate is scaled, gas price and nonce are read and
\* the transaction is built; either remote read may raise
Build(r) ==
  LET f == req[r] IN
  /\ f.pc = "converted"
  /\ \/ Step(r, [f EXCEPT !.pc = "built", !.rateUint = ToUint(f.avg),
                          !.nonce = GetTransactionCount])
     \/ Step(r, RaiseInSave(f, "rpc"))
  /\ UNCHANGED <<started, chainVars, repoVars, client>>

\* update_interest_rate: the transaction is signed and sent. The node takes
\* it (replacing a pending transaction of the same nonce when the gas price
\* read allows it) or rejects it (nonce too low, replacement underpriced, ...)
Send(r) ==
  LET f == req[r]
      g == [f EXCEPT !.sends = @ + 1]
      tx == [nonce |-> f.nonce, rate |-> f.rateUint, ts |-> f.unix,
             hash |-> nextHash]
      same == {p \in pending : p.nonce = f.nonce}
  IN
  /\ f.pc = "built"
  /\ \/ /\ f.nonce >= minedCount
        /\ Step(r, [g EXCEPT !.pc = "wait", !.txHash = nextHash,
                             !.elapsed = 0])
        /\ pending' = (pending \ same) \cup {tx}
        /\ nextHash' = nextHash + 1
        /\ submitted' = Append(submitted, f.nonce)
        /\ UNCHANGED <<minedCount, slot, receipts>>
     \/ /\ Step(r, RaiseInSave(g, "rejected"))
        /\ UNCHANGED chainVars
  /\ UNCHANGED <<started, repoVars, client>>

\* update_interest_rate: one poll of wait_for_transaction_receipt
Wait(r) ==
  LET f == req[r] IN
  /\ f.pc = "wait"
  /\ Step(r, IF f.txHash \in DOMAIN receipts
               THEN [f EXCEPT !.pc = "receipt"]
             ELSE IF TimedOut(f.elapsed)
               THEN RaiseInSave(f, "timeout")
             ELSE [f EXCEPT !.elapsed = Min(@ + TickSeconds, Timeout)])
  /\ UNCHANGED <<started, chainVars, repoVars, client>>

\* update_interest_rate: the remote call of a poll raises (the node is gone);
\* the except clause around the wait reports it as it reports a timeout
WaitRaises(r) ==
  LET f == req[r] IN
  /\ f.pc = "wait"
  /\ Step(r, RaiseInSave(f, "poll"))
  /\ UNCHANGED <<started, chainVars, repoVars, client>>

\* save_interest_rate checks what update_interest_rate returned; on success
\* calculate_and_save_average_rate returns the average
CheckReceipt(r) ==
  LET f == req[r] IN
  /\ f.pc = "receipt"
  /\ Step(r, IF ReceiptOk(receipts[f.txHash])
               THEN [f EXCEPT !.pc = "saved", !.saveOutcome = "ok",
                              !.returned = f.avg]
             ELSE RaiseInSave(f, "status0"))
  /\ UNCHANGED <<started, chainVars, repoVars, client>>

\* update_assets reads the stored value back: get_current_rate ->
\* get_current_interest_rate -> get_interest_rate, which answers None when the
\* remote call raises
LoadCurrent(r) ==
  LET f == req[r] IN
  /\ f.pc = "saved"
  /\ \E g \in GetCurrentRate(f, "loaded") : Step(r, g)
  /\ UNCHANGED <<started, chainVars, repoVars, client>>

\* update_assets: `_, timestamp = result` and the response
Respond(r) ==
  LET f == req[r] IN
  /\ f.pc = "loaded"
  /\ Step(r, IF f.loaded = << >>
               THEN [f EXCEPT !.pc = "raised", !.exc = "TypeError"]
             ELSE [f EXCEPT !.pc = "done",
                            !.response = [status |-> 200, rate |-> f.returned,
                                          ts |-> f.loaded[2]]])
  /\ UNCHANGED <<started, chainVars, repoVars, client>>

\* the except clauses: update_assets answers ValueError 400 and any other
\* exception 500; get_interest_rate answers every exception 500
HandleError(r) ==
  LET f == req[r] IN
  /\ f.pc = "raised"
  /\ Step(r, [f EXCEPT !.pc = "done",
                       !.response = [NoResponse EXCEPT !.status =
                                       IF f.kind = "post" /\ f.exc = "ValueError"
                                         THEN 400 ELSE 500]])
  /\ UNCHANGED <<started, chainVars, repoVars, client>>

----------------------------------------------------------------------------
(* GET /interest_rate: get_interest_rate *)

\* the handler starts: result = await service.get_current_rate()
FetchCurrent(r) ==
  LET f == req[r] IN
  /\ f.pc = "ready"
  /\ f.kind = "get"
  /\ \E g \in GetCurrentRate(f, "fetched") : Step(r, g)
  /\ UNCHANGED <<started, chainVars, repoVars, client>>

\* `if result is None: raise HTTPException(404)`, re-raised by
\* `except HTTPException: raise`; otherwise the response
FetchRespond(r) ==
  LET f == req[r] IN
  /\ f.pc = "fetched"
  /\ Step(r, IF f.loaded = << >>
               THEN [f EXCEPT !.pc = "done", !.exc = "HTTPException",
                              !.response = [NoResponse EXCEPT !.status = 404]]
             ELSE [f EXCEPT !.pc = "done",
                            !.response = [status |-> 200, rate |-> f.loaded[1],
                                          ts |-> f.loaded[2]]])
  /\ UNCHANGED <<started, chainVars, repoVars, client>>

----------------------------------------------------------------------------
(* Both handlers *)

\* the response is sent and the coroutine's frame is gone
Finish(r) ==
  /\ req[r].pc = "done"
  /\ req' = [req EXCEPT ![r] = Frame0]
  /\ UNCHANGED <<running, started, chainVars, repoVars, client>>

\* what another writer of the contract stores
OtherWrites ==
  {[rate |-> 1234, ts |-> 9]} \cup {[rate |-> 1234, ts |-> t] : t \in FarTimestamps}

\* a transaction of another writer of the same contract (another process of
\* the service, or any other caller of updateInterestRate) is mined
OtherWriter ==
  /\ \E w \in OtherWrites : slot' = w
  /\ UNCHANGED <<req, running, started, minedCount, pending, receipts,
                 nextHash, submitted, repoVars, client>>

\* the node mines the account's next pending transaction: the contract call
\* succeeds and sets the slot, or reverts
Mine ==
  \E p \in pending, st \in {0, 1} :
    /\ p.nonce = minedCount
    /\ pending' = pending \ {p}
    /\ minedCount' = minedCount + 1
    /\ receipts' = receipts @@ (p.hash :> st)
    /\ slot' = IF st = 1 THEN [rate |-> p.rate, ts |-> p.ts] ELSE slot
    /\ UNCHANGED <<req, running, started, nextHash, submitted, repoVars, client>>

----------------------------------------------------------------------------
(* Relational store: InterestRateRepository over a session of get_db *)

\* rates handed to the repository
RepoRates == {Dec(1500), DecimalDiv(Dec(4550), 3)}

\* a session; savedBegun is history: the number of rows that were committed
\* when the session's last successful save began
Sess0 ==
  [pc |-> "closed", new |-> << >>, outcome |-> "none", savedBegun |-> -1,
   last |-> << >>]

\* the column rate is NUMERIC(10, 2): the database rounds to two decimals,
\* ties away from zero
RoundNumeric(rate) ==
  LET unit == Pow10(FracDigits - 2)
  IN  ((2 * rate + unit) \div (2 * unit)) * unit

TsLeq(a, b) == a.sec < b.sec \/ (a.sec = b.sec /\ a.micro <= b.micro)

\* an ordering by insertion: the row inserted last
LatestInserted(rs) == {Len(rs)}

\* query(...).order_by(updated_at.desc()).first(): the rows a load may
\* return; the database picks any row of the greatest updated_at
LatestRows(rs) ==
  {i \in DOMAIN rs : \A j \in DOMAIN rs : TsLeq(rs[j].updated_at, rs[i].updated_at)}

\* a load that reads the rate and the greatest timestamp by two queries
LoadChoicesTwoQueries(rs) ==
  IF rs = << >> THEN {[id |-> 0, value |-> << >>]}
  ELSE {[id |-> i, value |-> << rs[i].rate, rs[j].updated_at >>] :
          i \in DOMAIN rs, j \in LatestRows(rs)}

\* what get_current_interest_rate may return on table rs: None, or
\* (latest.rate, latest.updated_at.isoformat()) of one row
LoadChoices(rs) ==
  IF rs = << >> THEN {[id |-> 0, value |-> << >>]}
  ELSE {[id |-> i, value |-> << rs[i].rate, rs[i].updated_at >>] :
          i \in LatestRows(rs)}

\* the row of model object obj; given is history: the rate as handed in
NewRow(rs, obj) ==
  [id |-> Len(rs) + 1, rate |-> RoundNumeric(obj.rate),
   updated_at |-> obj.updated_at, given |-> obj.rate]

\* a save that overwrites the current row instead of inserting one
InsertRowInPlace(rs, obj) ==
  IF rs = << >> THEN << NewRow(rs, obj) >>
  ELSE [rs EXCEPT ![Len(rs)] = [NewRow(rs, obj) EXCEPT !.id = Len(rs)]]

\* db.add(interest_rate); db.commit(): INSERT of one row
InsertRow(rs, obj) == Append(rs, NewRow(rs, obj))

\* a failed commit that leaves the flushed row behind
CommitFailKeepsRow(rs, obj) == Append(rs, NewRow(rs, obj))

\* db.commit() raises: the session rolls the transaction back and the
\* pending object is expunged; no row of it reaches the table
CommitFail(rs, obj) == rs

\* get_db: db = SessionLocal()
RepoOpen(s) ==
  /\ sess[s].pc = "closed"
  /\ sess' = [sess EXCEPT ![s] = [Sess0 EXCEPT !.pc = "open"]]
  /\ UNCHANGED <<rows, req, running, started, chainVars, client>>

\* save_interest_rate: the model object is built and added to the session
RepoAdd(s) ==
  /\ sess[s].pc = "open"
  /\ Len(rows) < MaxRows
  /\ \E rate \in RepoRates, t \in Timestamps :
       sess' = [sess EXCEPT ![s].pc = "added",
                            ![s].new = << [rate |-> rate, updated_at |-> t,
                                           begun |-> Len(rows)] >>,
                            ![s].outcome = "none", ![s].savedBegun = -1]
  /\ UNCHANGED <<rows, req, running, started, chainVars, client>>

\* save_interest_rate: db.commit() (and db.refresh) inserts the row, or fails
RepoCommit(s) ==
  LET obj == sess[s].new[1] IN
  /\ sess[s].pc = "added"
  /\ \/ /\ rows' = InsertRow(rows, obj)
        /\ sess' = [sess EXCEPT ![s].pc = "open", ![s].new = << >>,
                                ![s].outcome = "saved",
                                ![s].savedBegun = obj.begun]
     \/ /\ rows' = CommitFail(rows, obj)
        /\ sess' = [sess EXCEPT ![s].pc = "open", ![s].new = << >>,
                                ![s].outcome = "commit_failed"]
  /\ UNCHANGED <<req, running, started, chainVars, client>>

\* get_current_interest_rate
RepoLoad(s) ==
  /\ sess[s].pc = "open"
  /\ \E v \in LoadChoices(rows) :
       sess' = [sess EXCEPT ![s].last = v.value]
  /\ UNCHANGED <<rows, req, running, started, chainVars, client>>

\* get_db: finally db.close()
RepoClose(s) ==
  /\ sess[s].pc \in {"open", "added"}
  /\ sess' = [sess EXCEPT ![s] = Sess0]
  /\ UNCHANGED <<rows, req, running, started, chainVars, client>>

----------------------------------------------------------------------------
(* Construction of the ledger client: get_interest_rate_service, run by     *)
(* FastAPI in a worker thread for every request, and Web3Client             *)

\* the class before its first construction
Client0 ==
  [initialized |-> FALSE, w3 |-> 0, connects |-> 0,
   thread |-> [r \in Reqs |-> "none"]]

\* the class after one successful construction
ClientReady ==
  [Client0 EXCEPT !.initialized = TRUE, !.w3 = 1, !.connects = 1]

\* a request arrives and its dependency is called: Web3Client(...) gives the
\* one instance (__new__) and runs __init__ on it
Depends(r) ==
  /\ client.thread[r] = "none"
  /\ started < MaxSaves
  /\ started' = started + 1
  /\ client' = [client EXCEPT !.thread[r] = "init"]
  /\ UNCHANGED <<req, running, chainVars, repoVars>>

\* __init__: `if self._initialized: return`
ClientInit(r) ==
  /\ client.thread[r] = "init"
  /\ client' = [client EXCEPT !.thread[r] =
                  IF client.initialized THEN "built" ELSE "connect"]
  /\ UNCHANGED <<req, running, started, chainVars, repoVars>>

\* __init__: `self.w3 = Web3(Web3.HTTPProvider(rpc_url))`, the instance's
\* connection is now the one this thread made
ClientProvider(r) ==
  /\ client.thread[r] = "connect"
  /\ client' = [client EXCEPT !.w3 = r, !.thread[r] = "check"]
  /\ UNCHANGED <<req, running, started, chainVars, repoVars>>

\* __init__: `if not self.w3.is_connected(): raise ConnectionError(...)`:
\* the node is asked once
ClientConnect(r) ==
  /\ client.thread[r] = "check"
  /\ \E reachable \in BOOLEAN :
       client' = [client EXCEPT !.connects = @ + 1,
                                !.thread[r] = IF reachable THEN "load"
                                              ELSE "failed"]
  /\ UNCHANGED <<req, running, started, chainVars, repoVars>>

\* __init__: contract and account are loaded, `self._initialized = True`
ClientLoad(r) ==
  /\ client.thread[r] = "load"
  /\ client' = [client EXCEPT !.initialized = TRUE, !.thread[r] = "built"]
  /\ UNCHANGED <<req, running, started, chainVars, repoVars>>

\* the dependency returned a service and the handler runs with it, or it
\* raised and the request is answered without the handler
DependsDone(r) ==
  /\ client.thread[r] \in {"built", "failed"}
  /\ client' = [client EXCEPT !.thread[r] = "none"]
  /\ UNCHANGED <<req, running, started, chainVars, repoVars>>

----------------------------------------------------------------------------
(* Specifications *)

\* the steps of update_assets while the node answers every poll
PostStep(r) ==
  \/ Calculate(r) \/ SaveEnter(r) \/ Build(r) \/ Send(r) \/ Wait(r)
  \/ CheckReceipt(r) \/ LoadCurrent(r) \/ Respond(r) \/ HandleError(r)

ReqStep(r) ==
  PostStep(r) \/ WaitRaises(r) \/ FetchCurrent(r) \/ FetchRespond(r)

\* the process before its first request
ProcessStart ==
  /\ req = [r \in Reqs |-> Frame0]
  /\ running = 0
  /\ started = 0
  /\ minedCount = 0
  /\ pending = {}
  /\ slot = [rate |-> 0, ts |-> 0]
  /\ receipts = << >>
  /\ nextHash = 1
  /\ submitted = << >>
  /\ rows = << >>
  /\ sess = [s \in Sessions |-> Sess0]
  /\ client = Client0

\* the process once its ledger client is constructed, both stores fresh
Init ==
  /\ req = [r \in Reqs |-> Frame0]
  /\ running = 0
  /\ started = 0
  /\ minedCount = 0
  /\ pending = {}
  /\ slot = [rate |-> 0, ts |-> 0]
  /\ receipts = << >>
  /\ nextHash = 1
  /\ submitted = << >>
  /\ rows = << >>
  /\ sess = [s \in Sessions |-> Sess0]
  /\ client = ClientReady

Next ==
  \/ \E r \in Reqs : Receive(r)
  \/ \E r \in Reqs : ReqStep(r)
  \/ \E r \in Reqs : Finish(r)
  \/ Mine

Spec == Init /\ [][Next]_vars

RepoNext ==
  \/ \E s \in Sessions : RepoOpen(s)
  \/ \E s \in Sessions : RepoAdd(s)
  \/ \E s \in Sessions : RepoCommit(s)
  \/ \E s \in Sessions : RepoLoad(s)
  \/ \E s \in Sessions : RepoClose(s)

RepoSpec == Init /\ [][RepoNext]_vars

\* the ledger shared with other writers
SharedNext == Next \/ OtherWriter

SharedSpec == Init /\ [][SharedNext]_vars

\* no session is open and the table is empty
RepoIdle == rows = << >> /\ \A s \in Sessions : sess[s] = Sess0

\* A process over one store: the service is built over the ledger adapter
\* or over the repository, never both; whichever is used first stays.
StoreNext ==
  \/ \E r \in Reqs : RepoIdle /\ Receive(r)
  \/ \E r \in Reqs : ReqStep(r)
  \/ \E r \in Reqs : Finish(r)
  \/ Mine
  \/ \E s \in Sessions : started = 0 /\ RepoOpen(s)
  \/ \E s \in Sessions : RepoAdd(s)
  \/ \E s \in Sessions : RepoCommit(s)
  \/ \E s \in Sessions : RepoLoad(s)
  \/ \E s \in Sessions : RepoClose(s)

StoreSpec == Init /\ [][StoreNext]_vars

ClientNext ==
  \/ \E r \in Reqs : Depends(r)
  \/ \E r \in Reqs : ClientInit(r)
  \/ \E r \in Reqs : ClientProvider(r)
  \/ \E r \in Reqs : ClientConnect(r)
  \/ \E r \in Reqs : ClientLoad(r)
  \/ \E r \in Reqs : DependsDone(r)

ClientSpec == ProcessStart /\ [][ClientNext]_vars

\* POST /asset traffic alone, the node answering every poll
PostNext ==
  \/ \E r \in Reqs : Arrive(r, "post")
  \/ \E r \in Reqs : PostStep(r)
  \/ \E r \in Reqs : Finish(r)
  \/ Mine

\* a running coroutine keeps executing
FairSpec ==
  Init /\ [][PostNext]_vars /\ \A r \in Reqs : WF_vars(PostStep(r))

----------------------------------------------------------------------------
(* Claims *)

\* C1: concurrent ledger saves are serialized: at most one save at a time is
\* between its nonce read and the submission of its signed transaction.
C1_SavesSerialized ==
  Cardinality({r \in Reqs : req[r].pc = "built"}) <= 1

\* a save is between nonce read and submission while another request is
\* outstanding
C1_Witness ==
  \E r1, r2 \in Reqs :
    r1 # r2 /\ req[r1].pc = "built" /\ req[r2].pc = "ready"

\* C2: every transaction the node accepted carries a nonce strictly greater
\* than the nonce of every transaction accepted before it.
C2_IncreasingNonceOrder ==
  \A i, j \in DOMAIN submitted : i < j => submitted[i] < submitted[j]

\* C3: one invocation of calculateAndSave / ledger save sends at most one
\* transaction to the node, whatever its outcome, and the node has accepted
\* no more transactions than there were invocations.
C3_AtMostOnce ==
  /\ \A r \in Reqs : req[r].saves <= 1 /\ req[r].sends <= 1
  /\ Len(submitted) <= started

\* a save that ended in a confirmation timeout, with its one transaction sent
C3_Witness ==
  \E r \in Reqs :
    req[r].pc = "done" /\ req[r].cause = "timeout" /\ req[r].sends = 1

\* C4: ledger save returns success only with a receipt of non-failure status;
\* a timeout or a failure receipt ends in the error save raises.
C4_SuccessOnlyIfConfirmed ==
  \A r \in Reqs :
    /\ req[r].saveOutcome = "ok" =>
         /\ req[r].txHash \in DOMAIN receipts
         /\ receipts[req[r].txHash] # 0
         /\ req[r].cause = "none"
    /\ req[r].cause \in {"timeout", "status0"} =>
         req[r].saveOutcome = "error" /\ req[r].exc = "Exception"

\* a save whose transaction was mined with status 0 has failed
C4_Witness ==
  \E r \in Reqs :
    /\ req[r].cause = "status0"
    /\ req[r].txHash \in DOMAIN receipts
    /\ receipts[req[r].txHash] = 0
    /\ req[r].pc = "done"
    /\ req[r].response.status = 500

InSave == {"converted", "built", "wait", "receipt"}

\* C5: every ledger save eventually returns; a wait that is never answered
\* ends at the timeout, and the save then fails with the error save raises.
C5_SaveReturns ==
  /\ \A r \in Reqs : (req[r].pc \in InSave) ~> (req[r].saveOutcome # "none")
  /\ [](\A r \in Reqs :
          req[r].cause = "timeout" =>
            /\ req[r].elapsed >= Timeout
            /\ req[r].saveOutcome = "error"
            /\ req[r].exc = "Exception")

\* a save has returned by timeout while its transaction is still pending
C5_Witness ==
  \E r \in Reqs :
    /\ req[r].cause = "timeout"
    /\ req[r].pc = "done"
    /\ \E p \in pending : p.hash = req[r].txHash

C7_EmptyRejected ==
  /\ [](\A r \in Reqs :
          (req[r].kind = "post" /\ req[r].pc \notin {"idle", "ready"}
             /\ req[r].assets = << >>) =>
            /\ req[r].pc \in {"raised", "done"}
            /\ req[r].exc = "ValueError"
            /\ req[r].saves = 0
            /\ req[r].sends = 0
            /\ (req[r].pc = "done" => req[r].response.status = 400))
  /\ [][\A r \in Reqs :
          (req'[r] # req[r] /\ req'[r].kind = "post"
             /\ req'[r].pc \notin {"idle", "ready"} /\ req'[r].assets = << >>)
            => UNCHANGED chainVars]_vars

\* a request with the empty list was answered 400
C7_Witness ==
  \E r \in Reqs :
    req[r].assets = << >> /\ req[r].pc = "done" /\ req[r].response.status = 400

\* C8: for a non-empty list, the rate handed to save is the correctly rounded
\* quotient sum / n (exactly sum / n when that is representable), save is
\* invoked exactly once, and the value returned is that same rate.
C8_AverageSavedOnce ==
  \A r \in Reqs :
    req[r].avg # -1 =>
      LET n == Len(req[r].assets)
          total == SumRates(req[r].assets)
      IN  /\ n > 0
          /\ 2 * Abs(req[r].avg * n - total) <= n
          /\ req[r].saves <= 1
          /\ (req[r].pc # "averaged" => req[r].saves = 1)
          /\ (req[r].returned # -1 => req[r].returned = req[r].avg)
          /\ (req[r].response.status = 200 => req[r].response.rate = req[r].avg)

\* the average of three rates, not a multiple of 0.01, was saved and returned
C8_Witness ==
  \E r \in Reqs :
    /\ Len(req[r].assets) = 3
    /\ req[r].pc = "done"
    /\ req[r].response.status = 200
    /\ req[r].response.rate = req[r].avg
    /\ req[r].saves = 1

\* C9: a load right after a successful save returns the timestamp that was
\* passed to save and the same rate to two decimal places.
C9_RoundTrip ==
  \A r \in Reqs :
    (req[r].pc = "loaded" /\ req[r].loaded # << >>) =>
      /\ req[r].loaded[2] = req[r].ts
      /\ ToUint(req[r].loaded[1]) = ToUint(req[r].avg)

\* C10: a rate that needs more than two decimal places is rejected before any
\* call to the remote node: no nonce read, nothing built or sent.
C10_OverPrecisionRejected ==
  \A r \in Reqs :
    (req[r].avg # -1 /\ ~FitsTwoDecimals(req[r].avg)) =>
      /\ req[r].nonce = -1
      /\ req[r].sends = 0
      /\ req[r].pc \notin {"built", "wait", "receipt", "saved", "loaded"}

\* C11: while no save has ever succeeded, a load answers absent and not an
\* error, and GET /interest_rate answers 404 NotFound, never 500: on the
\* ledger (no transaction mined with success, so the slot was never written)
\* and on the relational store (empty table).
C11_FreshIsNotFound ==
  /\ (\A h \in DOMAIN receipts : receipts[h] = 0) =>
       \A r \in Reqs :
         (req[r].kind = "get" /\ req[r].pc \in {"fetched", "done"}) =>
           /\ req[r].loaded = << >>
           /\ req[r].exc # "Exception"
           /\ req[r].pc = "done" => req[r].response.status = 404
  /\ rows = << >> => \A s \in Sessions : sess[s].last = << >>

\* GET /interest_rate was answered after the node gave its reading, when the
\* only save so far had failed
C11_Witness ==
  \E r \in Reqs :
    /\ req[r].kind = "get" /\ req[r].pc = "done" /\ req[r].read = "ok"
    /\ req[r].response.status = 404
    /\ receipts # << >> /\ \A h \in DOMAIN receipts : receipts[h] = 0

\* a session loaded from the table after a save on it had failed
C11_RepoWitness ==
  \E s \in Sessions :
    /\ sess[s].outcome = "commit_failed" /\ sess[s].last = << >>
    /\ \E t \in Sessions : t # s /\ sess[t].pc = "open"

\* C12: a ledger load answers absent exactly when the remote reading is
\* (rate 0, timestamp 0); a reading of rate 0 with another timestamp is
\* answered present, and a remote read that fails is never answered absent.
C12_AbsentIffNeverWritten ==
  \A r \in Reqs :
    req[r].read # "none" =>
      (req[r].loaded = << >> <=>
         (req[r].read = "ok" /\ req[r].reading = [rate |-> 0, ts |-> 0]))

\* session s takes a load step
LoadStep(s) ==
  /\ sess[s].pc = "open" /\ sess'[s].pc = "open"
  /\ sess'[s].last # sess[s].last

\* C13: a save that completed before another save began is superseded by it:
\* once save B of a session has succeeded, a load does not return the pair of
\* a save that had completed before B began, whatever the timestamps are.
C13_Superseded ==
  [][\A s \in Sessions :
       (LoadStep(s) /\ sess[s].outcome = "saved") =>
         \E i \in DOMAIN rows :
           /\ i > sess[s].savedBegun
           /\ sess'[s].last = << rows[i].rate, rows[i].updated_at >>]_vars

\* C14: a load returns a pair that one save submitted together: the rate is
\* one of the submitted rates, paired with the timestamp of that same save.
C14_LoadIsOneSave ==
  \A s \in Sessions :
    sess[s].last # << >> =>
      \E i \in DOMAIN rows :
        sess[s].last = << rows[i].given, rows[i].updated_at >>

\* C14 (amended): a load returns the pair of one save, its rate rounded to
\* the two decimals of the column: never the rate of one save with the
\* timestamp of another.
C14_LoadIsOneSaveRounded ==
  \A s \in Sessions :
    sess[s].last # << >> =>
      \E i \in DOMAIN rows :
        sess[s].last = << RoundNumeric(rows[i].given), rows[i].updated_at >>

\* two saves that overlapped in time have both committed, with different
\* timestamps, and a load after the second commit returned a pair
C14_Witness ==
  /\ Len(rows) >= 2
  /\ \A s \in Sessions : sess[s].outcome = "saved"
  /\ sess[1].savedBegun = sess[2].savedBegun
  /\ \E s \in Sessions :
       /\ sess[s].last # << >>
       /\ sess[s].last[2] = rows[Len(rows)].updated_at
       /\ \A i \in 1..(Len(rows) - 1) :
            rows[i].updated_at # rows[Len(rows)].updated_at

\* C15: on the relational store the timestamp a load returns is never
\* earlier than the timestamp an earlier load returned.
C15_MonotoneUpdatedAt ==
  [][\A s \in Sessions :
       (LoadStep(s) /\ sess'[s].last # << >>) =>
         \A t \in Sessions :
           sess[t].last # << >> => TsLeq(sess[t].last[2], sess'[s].last[2])]_vars

\* two loads have returned different timestamps, and the table holds a row
\* inserted later with an earlier timestamp
C15_Witness ==
  /\ \E s, t \in Sessions :
       /\ sess[s].last # << >> /\ sess[t].last # << >>
       /\ sess[s].last[2] # sess[t].last[2]
  /\ \E i, j \in DOMAIN rows :
       i < j /\ ~TsLeq(rows[i].updated_at, rows[j].updated_at)

\* C16: the ledger node is asked for reachability at most once per process:
\* after a failed attempt no later request attempts it again, and after a
\* successful one no later request repeats it or makes a second connection.
C16_ConnectsOnce == client.connects <= 1

\* C17: a ledger save that waits for its confirmation does not stall other
\* requests: a load that another request issued while the save waits can
\* start (and complete) before the wait ends.
C17_WaitDoesNotStall ==
  \A r1, r2 \in Reqs :
    (req[r1].pc = "wait" /\ req[r2].pc = "ready" /\ req[r2].kind = "get")
      => ENABLED FetchCurrent(r2)

\* C18: whenever a ledger save fails after its transaction was submitted,
\* the error given to the caller carries the transaction's identifier.
C18_ErrorCarriesTx ==
  \A r \in Reqs :
    (req[r].saveOutcome = "error" /\ req[r].txHash # -1) =>
      req[r].errTx = req[r].txHash

\* session s commits its save with success
SavedStep(s) ==
  /\ sess[s].pc = "added" /\ sess'[s].pc = "open"
  /\ sess'[s].outcome = "saved"

\* every row that exists stays as it is
RowsKept == \A i \in DOMAIN rows : i \in DOMAIN rows' /\ rows'[i] = rows[i]

\* C19: the relational store is append-only: a successful save adds exactly
\* one row, holding the saved rate and timestamp, and every save and every
\* load leaves the rows that existed unchanged.
C19_AppendOnly ==
  [][/\ RowsKept
     /\ \A s \in Sessions :
          SavedStep(s) =>
            /\ Len(rows') = Len(rows) + 1
            /\ rows'[Len(rows')].rate = sess[s].new[1].rate
            /\ rows'[Len(rows')].updated_at = sess[s].new[1].updated_at
     /\ (\A s \in Sessions : ~SavedStep(s)) => rows' = rows]_vars

\* C19 (amended): as C19, the new row holding the saved rate rounded to the
\* two decimals of the column.
C19_AppendOnlyRounded ==
  [][/\ RowsKept
     /\ \A s \in Sessions :
          SavedStep(s) =>
            /\ Len(rows') = Len(rows) + 1
            /\ rows'[Len(rows')].rate = RoundNumeric(sess[s].new[1].rate)
            /\ rows'[Len(rows')].updated_at = sess[s].new[1].updated_at
     /\ (\A s \in Sessions : ~SavedStep(s)) => rows' = rows]_vars

\* a save has succeeded on a table that already held a row, another save
\* has failed, and a load has returned
C19_Witness ==
  /\ Len(rows) >= 2
  /\ \E s, t \in Sessions :
       /\ sess[s].outcome = "saved" /\ sess[s].savedBegun >= 1
       /\ sess[s].last # << >>
       /\ sess[t].outcome = "commit_failed"

\* C20: the average and the timestamp of a successful POST /asset answer
\* belong to one save: the average is the one this request saved and the
\* timestamp is the one its own save stored with it, whatever other requests
\* and other writers of the contract do in between.
C20_ResponseIsOwnSave ==
  \A r \in Reqs :
    (req[r].kind = "post" /\ req[r].response.status = 200) =>
      /\ req[r].response.rate = req[r].avg
      /\ req[r].response.ts = UnixToIso(req[r].unix)

\* C21: POST /asset never reports a failure for a request whose save
\* succeeded: it ends with the success response even when the read-back of
\* the current rate answers absent or fails.
C21_SavedMeansSuccess ==
  \A r \in Reqs :
    (req[r].kind = "post" /\ req[r].saveOutcome = "ok" /\ req[r].pc = "done")
      => req[r].response.status = 200

\* C22: POST /asset answers 400 InvalidInput exactly when the request was
\* rejected before any storage call (the empty list), and every failure
\* raised inside the ledger save path is answered 500 InternalError, never
\* 400 and never success.
C22_UniformErrors ==
  \A r \in Reqs :
    (req[r].kind = "post" /\ req[r].pc = "done") =>
      /\ req[r].response.status = 400 <=>
           (req[r].assets = << >> /\ req[r].saves = 0)
      /\ req[r].saveOutcome = "error" => req[r].response.status = 500

====
